---------------------------- MODULE Spec2Model ----------------------------
(***************************************************************************)
(* Model of two tracing adapters of dd-trace-go:                           *)
(*   - the rueidis client hook (package rueidis): WrapClient and the        *)
(*     datadogHook methods Do, DoMulti, DoCache, DoMultiCache, Receive,     *)
(*     with start, end, resourceName, firstError and the *ToStr helpers;    *)
(*   - grpcsec.SetSecurityEventTags.                                        *)
(* Go strings are sequences of one-character strings, so that joining,      *)
(* indexing and slicing are computed rather than assumed.                   *)
(***************************************************************************)
EXTENDS Integers, Sequences, FiniteSets, TLC

VARIABLES
    hook,        \* the datadogHook installed by WrapClient (params: config, additionalTags)
    given,       \* the addrs slice value the caller handed to WrapClient
    callerArr,   \* the caller's backing array of that slice, after WrapClient
    spans,       \* the tracer's spans, indexed by span id
    pc,          \* per call: position in the hook method
    kind,        \* per call: which hook method runs
    args,        \* per call: the commands passed (one for a single-command method)
    op,          \* per call: the operation string handed to start
    ctx,         \* per call: the span id carried by the derived context
    resps,       \* per call: what the wrapped client returned (one error value per result)
    errRedis,    \* per call: the error handed to end
    rop,         \* resourceName driver: the operation string
    rout,        \* resourceName driver: the computed resource name
    rpc,         \* resourceName driver: position
    tspan,       \* grpcsec: tags of the service entry span
    tevents,     \* grpcsec: the events passed
    tmd,         \* grpcsec: the metadata map passed
    traised,     \* grpcsec: the error the caller of SetSecurityEventTags observes
    tlog,        \* grpcsec: lines written by log.Error
    tpc          \* grpcsec: position

hookVars == <<hook, given, callerArr, spans, pc, kind, args, op, ctx, resps, errRedis>>
resVars  == <<rop, rout, rpc>>
tagVars  == <<tspan, tevents, tmd, traised, tlog, tpc>>
vars     == <<hookVars, resVars, tagVars>>

-----------------------------------------------------------------------------
(* Bounds *)
MaxCalls  == 2
MaxTokens == 2
MaxBatch  == 2
MaxAddrs  == 2
MaxSpare  == 1
MaxOpLen  == 4
MaxEvents == 2

-----------------------------------------------------------------------------
(* Strings *)
SP == " "
NL == "\n"

RECURSIVE Join(_, _)
\* strings.Join(elems, sep)
Join(elems, sep) ==
    IF elems = <<>> THEN <<>>
    ELSE IF Len(elems) = 1 THEN elems[1]
    ELSE elems[1] \o sep \o Join(Tail(elems), sep)

RECURSIVE IndexFrom(_, _, _)
IndexFrom(s, ch, i) ==
    IF i > Len(s) THEN -1
    ELSE IF s[i] = ch THEN i - 1
    ELSE IndexFrom(s, ch, i + 1)

\* strings.IndexByte(s, ch): the 0-based index of the first ch in s, or -1
IndexByte(s, ch) == IndexFrom(s, ch, 1)

Digit == <<"0", "1", "2", "3", "4", "5", "6", "7", "8", "9">>

RECURSIVE Itoa(_)
\* strconv.Itoa(n) for n >= 0
Itoa(n) == IF n < 10 THEN <<Digit[n + 1]>> ELSE Itoa(n \div 10) \o <<Digit[(n % 10) + 1]>>


-----------------------------------------------------------------------------
(* Errors. A RedisResult is represented by the value of its Error() method. *)
NoErr    == "nil"          \* the nil error
RedisNil == "redis.Nil"    \* the rueidis.Nil sentinel, returned for a not-found reply
Errors   == {NoErr, RedisNil, "E1", "E2"}

\* rueidis.IsRedisNil(err): err is the redis nil reply
IsRedisNil(err) == err = RedisNil

\* RedisResult.Error()
Error(result) == result

-----------------------------------------------------------------------------
(* The tracer: options, spans *)
NaN == "NaN"

\* tracer.Tag(k, v), and the options that are tags under a fixed key
Tag(k, v) == [key |-> k, value |-> v]

SpanType(t) == Tag("span.type", t)

ServiceName(n) == Tag("service.name", n)

ResourceName(n) == Tag("resource.name", n)

\* tracer.WithError(err)
WithError(err) == [error |-> err]

RECURSIVE ApplyOpts(_, _)
\* the start options are applied to the span in order, a later tag replacing an earlier one
ApplyOpts(tags, opts) ==
    IF opts = <<>> THEN tags
    ELSE ApplyOpts([k \in DOMAIN tags \cup {Head(opts).key} |->
                        IF k = Head(opts).key THEN Head(opts).value ELSE tags[k]],
                   Tail(opts))

NoTags == [k \in {} |-> <<>>]

\* tracer.StartSpanFromContext(ctx, name, opts...): the new span
StartSpanFromContext(name, opts) ==
    [name |-> name, tags |-> ApplyOpts(NoTags, opts), finished |-> 0, error |-> NoErr]

\* span.Finish(opts...): the span is finished once more; a non-nil WithError marks it failed
Finish(span, finishOpts) ==
    [span EXCEPT !.finished = @ + 1,
                 !.error = IF finishOpts # <<>> /\ finishOpts[Len(finishOpts)].error # NoErr
                           THEN finishOpts[Len(finishOpts)].error ELSE @]

-----------------------------------------------------------------------------
(* The hook's pure functions *)

\* append(s, x) on a slice [arr, len] whose capacity is Len(arr). shared tells whether
\* arr is still the caller's backing array; caller is that backing array
appendSlice(s, x) ==
    IF s.len < Len(s.arr)
    THEN LET a == [s.arr EXCEPT ![s.len + 1] = x]
         IN  [arr |-> a, len |-> s.len + 1, shared |-> s.shared,
              caller |-> IF s.shared THEN a ELSE s.caller]
    ELSE LET newcap == IF Len(s.arr) = 0 THEN 1 ELSE 2 * Len(s.arr)
         IN  [arr |-> [i \in 1..newcap |-> IF i <= s.len THEN s.arr[i]
                                           ELSE IF i = s.len + 1 THEN x ELSE <<>>],
              len |-> s.len + 1, shared |-> FALSE, caller |-> s.caller]

RECURSIVE rangeAppend(_, _, _)
\* for _, addr := range addrs { addrs = append(addrs, addr) }: the range expression is
\* evaluated once (the first n elements of the caller's array), the appends go to addrs
rangeAppend(s, i, n) ==
    IF i > n THEN s ELSE rangeAppend(appendSlice(s, s.caller[i]), i + 1, n)

\* the slice addrs after the loop of additionalTagOptions
addrsAfterLoop(addrs) ==
    rangeAppend([arr |-> addrs.arr, len |-> addrs.len, shared |-> TRUE, caller |-> addrs.arr],
                1, addrs.len)

additionalTagOptions(addrs) ==
    LET s == addrsAfterLoop(addrs)
    IN  << Tag("addrs", Join(SubSeq(s.arr, 1, s.len), <<",", SP>>)) >>

resourceName(opstr) ==
    LET spaceIndex == IndexByte(opstr, SP)
    IN  IF spaceIndex > 0 THEN SubSeq(opstr, 1, spaceIndex) ELSE opstr

RECURSIVE firstErrorAnyError(_)
\* firstError without the IsRedisNil test: the first error present, the sentinel included
firstErrorAnyError(s) ==
    IF s = <<>> THEN NoErr
    ELSE IF Error(Head(s)) # NoErr THEN Error(Head(s))
    ELSE firstErrorAnyError(Tail(s))

RECURSIVE firstError(_)
firstError(s) ==
    IF s = <<>> THEN NoErr
    ELSE IF Error(Head(s)) # NoErr /\ ~IsRedisNil(Error(Head(s))) THEN Error(Head(s))
    ELSE firstError(Tail(s))

RECURSIVE completedToStr(_)
completedToStr(cmds) ==
    IF cmds = <<>> THEN <<>>
    ELSE (Join(Head(cmds), <<SP>>) \o <<":", NL>>) \o completedToStr(Tail(cmds))

RECURSIVE cacheableToStr(_)
cacheableToStr(cmds) ==
    IF cmds = <<>> THEN <<>>
    ELSE (Join(Head(cmds), <<SP>>) \o <<":", NL>>) \o cacheableToStr(Tail(cmds))

RECURSIVE cacheableTtlToStr(_)
cacheableTtlToStr(cmds) ==
    IF cmds = <<>> THEN <<>>
    ELSE (Join(Head(cmds).Cmd, <<SP>>) \o <<":", NL>>) \o cacheableTtlToStr(Tail(cmds))

\* start without the skipRaw test: the raw command is always attached
startAlwaysRaw(h, opstr, size) ==
    << SpanType("redis"),
       ServiceName(h.config.serviceName),
       ResourceName(resourceName(opstr)),
       Tag("redis.args_length", Itoa(size)),
       Tag("component", "rueidis"),
       Tag("span.kind", "client"),
       Tag("db.system", "redis"),
       Tag("redis.raw_command", opstr) >>
    \o h.additionalTags
    \o (IF h.config.analyticsRate # NaN
        THEN << Tag("_dd1.sr.eausr", h.config.analyticsRate) >> ELSE <<>>)

\* datadogHook.start: the options handed to tracer.StartSpanFromContext
start(h, opstr, size) ==
    << SpanType("redis"),
       ServiceName(h.config.serviceName),
       ResourceName(resourceName(opstr)),
       Tag("redis.args_length", Itoa(size)),
       Tag("component", "rueidis"),
       Tag("span.kind", "client"),
       Tag("db.system", "redis") >>
    \o (IF ~h.config.skipRaw THEN << Tag("redis.raw_command", opstr) >> ELSE <<>>)
    \o h.additionalTags
    \o (IF h.config.analyticsRate # NaN
        THEN << Tag("_dd1.sr.eausr", h.config.analyticsRate) >> ELSE <<>>)

\* end without the comparison with rueidis.Nil: the predicate alone decides
endPredicateOnly(h, err) ==
    IF err \in h.config.errCheck THEN << WithError(err) >> ELSE <<>>

\* datadogHook.end: the options handed to span.Finish
end(h, err) ==
    IF err # RedisNil /\ err \in h.config.errCheck THEN << WithError(err) >> ELSE <<>>

-----------------------------------------------------------------------------
(* Inputs *)
Verb == <<"G">>
Arg  == <<"k">>

\* a command of m tokens: its verb, then arguments
Command(m) == [i \in 1..m |-> IF i = 1 THEN Verb ELSE Arg]

Commands == { Command(m) : m \in 1..MaxTokens }

Batches == UNION { [1..n -> Commands] : n \in 0..MaxBatch }

CacheableTTLs == { [Cmd |-> c, TTL |-> "1s"] : c \in Commands }

CacheBatches == UNION { [1..n -> CacheableTTLs] : n \in 0..MaxBatch }

Addrs == {<<"a">>, <<"b">>}

\* the slices a caller may pass: n addresses in a backing array with some spare capacity,
\* whose spare slots hold the empty string
AddrSlices ==
    { [arr |-> [i \in 1..(Len(l) + spare) |-> IF i <= Len(l) THEN l[i] ELSE <<>>],
       len |-> Len(l)] :
      l \in UNION { [1..n -> Addrs] : n \in 0..MaxAddrs }, spare \in 0..MaxSpare }

\* error-classification predicates, each given by the set of errors it accepts
ErrChecks == { Errors, {"E1", "E2"}, {RedisNil, "E1"}, {} }

Rates == {NaN, "0.5"}

\* the two slices used where the addresses are not the subject
FewAddrSlices == { a \in AddrSlices : a.arr \in {<<>>, << <<"a">> >>} }

\* the inputs used where several calls interleave
FewCommands == { Command(1) }

FewBatches == { <<>>, <<Command(1), Command(MaxTokens)>> }

FewCacheBatches == { <<>>, <<[Cmd |-> Command(1), TTL |-> "1s"],
                            [Cmd |-> Command(MaxTokens), TTL |-> "1s"]>> }

\* operation strings for resourceName
OpChars == {"G", SP, ":"}

OpStrings == UNION { [1..n -> OpChars] : n \in 0..MaxOpLen }

\* grpc metadata: header names and value lists
HeaderKeys == {<<"A">>, <<"a">>, <<"b">>}

ValueLists == { << <<"x">> >>, << <<"x">>, <<"y">> >> }

Metadata == UNION { [K -> ValueLists] : K \in SUBSET HeaderKeys }

\* a security event is a json.RawMessage, well-formed or not
EventLists == UNION { [1..n -> {"valid", "malformed"}] : n \in 0..MaxEvents }

Calls == 1..MaxCalls

Single == {"Do", "DoCache", "Receive"}
Multi  == {"DoMulti", "DoMultiCache"}

-----------------------------------------------------------------------------
(* Initial state *)
NoHook == [installed |-> FALSE,
           config |-> [serviceName |-> "", skipRaw |-> FALSE, analyticsRate |-> NaN,
                       errCheck |-> {}],
           additionalTags |-> <<>>]

NoSlice == [arr |-> <<>>, len |-> 0]

HookInit ==
    /\ hook = NoHook
    /\ given = NoSlice
    /\ callerArr = <<>>
    /\ spans = <<>>
    /\ pc = [c \in Calls |-> "idle"]
    /\ kind = [c \in Calls |-> ""]
    /\ args = [c \in Calls |-> <<>>]
    /\ op = [c \in Calls |-> <<>>]
    /\ ctx = [c \in Calls |-> 0]
    /\ resps = [c \in Calls |-> <<>>]
    /\ errRedis = [c \in Calls |-> NoErr]

ResIdle ==
    /\ rop = <<>>
    /\ rout = <<>>
    /\ rpc = "off"

TagIdle ==
    /\ tspan = NoTags
    /\ tevents = <<>>
    /\ tmd = NoTags
    /\ traised = NoErr
    /\ tlog = <<>>
    /\ tpc = "off"

-----------------------------------------------------------------------------
(* The hook's operations *)

\* WrapClient(client, addrs, opts...): opts set skipRaw, analyticsRate and errCheck
WrapClient(addrs, skipRaw, rate, errCheck) ==
    /\ ~hook.installed
    /\ hook' = [installed |-> TRUE,
                config |-> [serviceName |-> "redis.client", skipRaw |-> skipRaw,
                            analyticsRate |-> rate, errCheck |-> errCheck],
                additionalTags |-> additionalTagOptions(addrs)]
    /\ given' = addrs
    /\ callerArr' = addrsAfterLoop(addrs).caller
    /\ UNCHANGED <<spans, pc, kind, args, op, ctx, resps, errRedis>>
    /\ UNCHANGED <<resVars, tagVars>>

\* ctx, _ = h.start(ctx, op, size), the first statement of the hook method k of call c
\* with arguments a
Begin(c, k, a, opstr, size) ==
    /\ pc[c] = "idle"
    /\ spans' = Append(spans, StartSpanFromContext("redis.command", start(hook, opstr, size)))
    /\ ctx' = [ctx EXCEPT ![c] = Len(spans) + 1]
    /\ kind' = [kind EXCEPT ![c] = k]
    /\ args' = [args EXCEPT ![c] = a]
    /\ op' = [op EXCEPT ![c] = opstr]
    /\ pc' = [pc EXCEPT ![c] = "invoke"]
    /\ UNCHANGED <<hook, given, callerArr, resps, errRedis>>
    /\ UNCHANGED <<resVars, tagVars>>

\* h.end(ctx, err) and the return of the hook method of call c
Finishing(c, err) ==
    /\ pc[c] = "returned"
    /\ errRedis' = [errRedis EXCEPT ![c] = err]
    /\ spans' = [spans EXCEPT ![ctx[c]] = Finish(@, end(hook, err))]
    /\ pc' = [pc EXCEPT ![c] = "done"]
    /\ UNCHANGED <<hook, given, callerArr, kind, args, op, ctx, resps>>
    /\ UNCHANGED <<resVars, tagVars>>

DoBegin(c, cmd) ==
    /\ hook.installed
    /\ Begin(c, "Do", <<cmd>>, completedToStr(<<cmd>>), Len(cmd))

DoEnd(c) ==
    /\ kind[c] = "Do"
    /\ Finishing(c, Error(resps[c][1]))

DoMultiBegin(c, multi) ==
    /\ hook.installed
    /\ Begin(c, "DoMulti", multi, completedToStr(multi), Len(multi))

DoMultiEnd(c) ==
    /\ kind[c] = "DoMulti"
    /\ Finishing(c, firstError(resps[c]))

DoCacheBegin(c, cmd) ==
    /\ hook.installed
    /\ Begin(c, "DoCache", <<cmd>>, cacheableToStr(<<cmd>>), Len(cmd))

DoCacheEnd(c) ==
    /\ kind[c] = "DoCache"
    /\ Finishing(c, Error(resps[c][1]))

DoMultiCacheBegin(c, multi) ==
    /\ hook.installed
    /\ Begin(c, "DoMultiCache", multi, cacheableTtlToStr(multi), Len(multi))

DoMultiCacheEnd(c) ==
    /\ kind[c] = "DoMultiCache"
    /\ Finishing(c, firstError(resps[c]))

ReceiveBegin(c, subscribe) ==
    /\ hook.installed
    /\ Begin(c, "Receive", <<subscribe>>, completedToStr(<<subscribe>>), Len(subscribe))

ReceiveEnd(c) ==
    /\ kind[c] = "Receive"
    /\ Finishing(c, resps[c][1])

\* the wrapped client's operation returns: one result for a single command, one per
\* command for a batch, each carrying any error or none
ClientReturns(c) ==
    /\ pc[c] = "invoke"
    /\ \E r \in [1..(IF kind[c] \in Multi THEN Len(args[c]) ELSE 1) -> Errors] :
           resps' = [resps EXCEPT ![c] = r]
    /\ pc' = [pc EXCEPT ![c] = "returned"]
    /\ UNCHANGED <<hook, given, callerArr, spans, kind, args, op, ctx, errRedis>>
    /\ UNCHANGED <<resVars, tagVars>>

\* the wrapped client's operation panics: the hook method is unwound, no statement after
\* the call runs (the methods defer nothing)
ClientPanics(c) ==
    /\ pc[c] = "invoke"
    /\ pc' = [pc EXCEPT ![c] = "panicked"]
    /\ UNCHANGED <<hook, given, callerArr, spans, kind, args, op, ctx, resps, errRedis>>
    /\ UNCHANGED <<resVars, tagVars>>

-----------------------------------------------------------------------------
(* resourceName applied to an arbitrary operation string *)
ResourceNameCall ==
    /\ rpc = "ready"
    /\ rout' = resourceName(rop)
    /\ rpc' = "done"
    /\ UNCHANGED <<rop, hookVars, tagVars>>

-----------------------------------------------------------------------------
(* grpcsec *)
GrpcMetadataPrefix == <<"g", "r", "p", "c", ".", "m", "e", "t", "a", "d", "a", "t", "a", ".">>

AppsecJSON == <<"_", "d", "d", ".", "a", "p", "p", "s", "e", "c", ".", "j", "s", "o", "n">>

ErrEncode == "encode error"

\* strings.ToLower on the letters header names are made of
ToLower(str) == [i \in 1..Len(str) |-> IF str[i] = "A" THEN "a"
                                      ELSE IF str[i] = "B" THEN "b" ELSE str[i]]

\* httpsec.NormalizeHTTPHeaders(md): header names are case-folded and each value list is
\* joined with ","; when two names fold to one, the map's iteration order decides whose
\* values are kept, so the possible results form a set
NormalizeHTTPHeaders(md) ==
    LET names == { ToLower(k) : k \in DOMAIN md }
    IN  { n \in [names -> { Join(md[k], <<",">>) : k \in DOMAIN md }] :
            \A h \in names : \E k \in DOMAIN md : ToLower(k) = h /\ n[h] = Join(md[k], <<",">>) }

\* instrumentation.SetEventSpanTags(span, events): the events are encoded into a span tag;
\* encoding fails on a malformed event; nothing is set for no events
SetEventSpanTags(tags, events) ==
    IF \E i \in 1..Len(events) : events[i] = "malformed"
    THEN [err |-> ErrEncode, tags |-> tags]
    ELSE IF events = <<>> THEN [err |-> NoErr, tags |-> tags]
    ELSE [err |-> NoErr,
          tags |-> [k \in DOMAIN tags \cup {AppsecJSON} |->
                       IF k = AppsecJSON THEN events ELSE tags[k]]]

\* setSecurityEventTags(span, events, md), with normalized the map NormalizeHTTPHeaders gave
setSecurityEventTags(tags, events, normalized) ==
    LET r == SetEventSpanTags(tags, events)
    IN  IF r.err # NoErr THEN [err |-> r.err, tags |-> r.tags]
        ELSE [err |-> NoErr,
              tags |-> [k \in DOMAIN r.tags \cup { GrpcMetadataPrefix \o h : h \in DOMAIN normalized } |->
                           IF \E h \in DOMAIN normalized : k = GrpcMetadataPrefix \o h
                           THEN normalized[CHOOSE h \in DOMAIN normalized : k = GrpcMetadataPrefix \o h]
                           ELSE r.tags[k]]]

\* SetSecurityEventTags handing the error on to its caller
SetSecurityEventTagsPropagating(tags, events, normalized) ==
    LET r == setSecurityEventTags(tags, events, normalized)
    IN  [tags |-> r.tags, raised |-> r.err,
         log |-> IF r.err # NoErr THEN <<r.err>> ELSE <<>>]

\* SetSecurityEventTags(span, events, md): what it leaves on the span, what its caller
\* observes, and what it logs
SetSecurityEventTags(tags, events, normalized) ==
    LET r == setSecurityEventTags(tags, events, normalized)
    IN  [tags |-> r.tags, raised |-> NoErr,
         log |-> IF r.err # NoErr THEN <<r.err>> ELSE <<>>]

SetSecurityEventTagsCall ==
    /\ tpc = "ready"
    /\ \E events \in EventLists, md \in Metadata :
         \E normalized \in NormalizeHTTPHeaders(md) :
            LET r == SetSecurityEventTags(tspan, events, normalized)
            IN  /\ tspan' = r.tags
                /\ traised' = r.raised
                /\ tlog' = tlog \o r.log
                /\ tevents' = events
                /\ tmd' = md
    /\ tpc' = "returned"
    /\ UNCHANGED <<hookVars, resVars>>

-----------------------------------------------------------------------------
(* Specifications *)

CallStep(c, C, B, CB) ==
    \/ \E cmd \in C : DoBegin(c, cmd)
    \/ \E multi \in B : DoMultiBegin(c, multi)
    \/ \E cmd \in C : DoCacheBegin(c, cmd)
    \/ \E multi \in CB : DoMultiCacheBegin(c, multi)
    \/ \E cmd \in C : ReceiveBegin(c, cmd)
    \/ ClientReturns(c)
    \/ ClientPanics(c)
    \/ DoEnd(c)
    \/ DoMultiEnd(c)
    \/ DoCacheEnd(c)
    \/ DoMultiCacheEnd(c)
    \/ ReceiveEnd(c)

Init == HookInit /\ ResIdle /\ TagIdle

\* one call through the hook, with every command and batch within the bounds
Next ==
    \/ \E a \in FewAddrSlices, s \in BOOLEAN, r \in Rates, e \in ErrChecks :
          WrapClient(a, s, r, e)
    \/ CallStep(1, Commands, Batches, CacheBatches)

Spec == Init /\ [][Next]_vars

\* concurrent calls through one hook
NextConc ==
    \/ \E s \in BOOLEAN, e \in ErrChecks : WrapClient(NoSlice, s, NaN, e)
    \/ \E c \in Calls : CallStep(c, FewCommands, FewBatches, FewCacheBatches)

SpecConc == Init /\ [][NextConc]_vars

\* WrapClient with every address slice within the bounds, then one call
NextWrap ==
    \/ \E a \in AddrSlices, s \in BOOLEAN, r \in Rates, e \in ErrChecks :
          WrapClient(a, s, r, e)
    \/ CallStep(1, FewCommands, FewBatches, FewCacheBatches)

SpecWrap == Init /\ [][NextWrap]_vars

InitResource ==
    /\ HookInit
    /\ TagIdle
    /\ rop \in OpStrings
    /\ rout = <<>>
    /\ rpc = "ready"

SpecResource == InitResource /\ [][ResourceNameCall]_vars

InitTags ==
    /\ HookInit
    /\ ResIdle
    /\ tspan = NoTags
    /\ tevents = <<>>
    /\ tmd = NoTags
    /\ traised = NoErr
    /\ tlog = <<>>
    /\ tpc = "ready"

SpecTags == InitTags /\ [][SetSecurityEventTagsCall]_vars

-----------------------------------------------------------------------------
(* Properties *)

SetMin(S) == CHOOSE x \in S : \A y \in S : x <= y

HasPrefix(str, prefix) ==
    Len(str) >= Len(prefix) /\ SubSeq(str, 1, Len(prefix)) = prefix

\* the commands of call c, whatever its method
CommandsOf(c) ==
    IF kind[c] = "DoMultiCache" THEN [i \in 1..Len(args[c]) |-> args[c][i].Cmd] ELSE args[c]

Started(c) == pc[c] # "idle"

\* C1: every span a call started is finished exactly once by that call, after the wrapped
\* operation was invoked, on every exit path: not before the wrapped call ended, and
\* exactly once when the call has ended, by returning or by the wrapped call panicking
C1_FinishedExactlyOnce ==
    \A c \in Calls :
        /\ pc[c] \in {"invoke", "returned"} => spans[ctx[c]].finished = 0
        /\ pc[c] \in {"done", "panicked"} => spans[ctx[c]].finished = 1

\* C2: the size tag redis.args_length is 1 for Do, DoCache and Receive, whatever the number
\* of tokens, and the number of commands for DoMulti and DoMultiCache
C2_SizeTag ==
    \A c \in Calls :
        Started(c) =>
            spans[ctx[c]].tags["redis.args_length"] =
                Itoa(IF kind[c] \in Single THEN 1 ELSE Len(args[c]))

\* C3: after SetSecurityEventTags, whatever the outcome of the encoding of the events, the
\* grpc.metadata.* tags of the span are exactly one per header of md, named by the
\* normalized header
C3_OneTagPerHeader ==
    tpc = "returned" =>
        { k \in DOMAIN tspan : HasPrefix(k, GrpcMetadataPrefix) }
            = { GrpcMetadataPrefix \o ToLower(h) : h \in DOMAIN tmd }

\* C4: SetSecurityEventTags returns to its caller without an error for every event list
\* and metadata map; a failure of the encoding is logged, and nothing else is
C4_NeverRaises ==
    tpc = "returned" =>
        /\ traised = NoErr
        /\ tlog = IF \E i \in 1..Len(tevents) : tevents[i] = "malformed"
                  THEN <<ErrEncode>> ELSE <<>>

C4_Witness ==
    /\ tpc = "returned"
    /\ \E i \in 1..Len(tevents) : tevents[i] = "malformed"
    /\ tmd # NoTags
    /\ tlog # <<>>
    /\ traised = NoErr

\* C5: resourceName(op) is op when op holds no space, and the part of op before its first
\* space otherwise, also when that space is the first character
C5_ResourceName ==
    rpc = "done" =>
        LET spaces == { i \in 1..Len(rop) : rop[i] = SP }
        IN  rout = IF spaces = {} THEN rop ELSE SubSeq(rop, 1, SetMin(spaces) - 1)

\* C6: for DoMulti and DoMultiCache the error handed to end is the error of the first
\* result whose error is present and not the not-found sentinel, and no error when there
\* is no such result
C6_FirstError ==
    \A c \in Calls :
        (pc[c] = "done" /\ kind[c] \in Multi) =>
            LET hard == { i \in 1..Len(resps[c]) : resps[c][i] \notin {NoErr, RedisNil} }
            IN  errRedis[c] = IF hard = {} THEN NoErr ELSE resps[c][SetMin(hard)]

C6_Witness ==
    \E c \in Calls :
        /\ pc[c] = "done"
        /\ kind[c] \in Multi
        /\ resps[c] = <<RedisNil, "E1">>
        /\ errRedis[c] = "E1"

\* C7: end finishes the span, and marks it failed with the operation's error exactly when
\* that error is not the not-found sentinel and the configured predicate accepts it; a
\* not-found result never marks the span failed
C7_EndMarksError ==
    \A c \in Calls :
        pc[c] = "done" =>
            /\ spans[ctx[c]].finished = 1
            /\ errRedis[c] # NoErr =>
                   ((spans[ctx[c]].error = errRedis[c])
                        <=> (errRedis[c] # RedisNil /\ errRedis[c] \in hook.config.errCheck))
            /\ errRedis[c] = RedisNil => spans[ctx[c]].error = NoErr
            /\ spans[ctx[c]].error \in {NoErr, errRedis[c]}

C7_Witness ==
    \E c \in Calls :
        /\ pc[c] = "done"
        /\ errRedis[c] = RedisNil
        /\ RedisNil \in hook.config.errCheck
        /\ spans[ctx[c]].finished = 1
        /\ spans[ctx[c]].error = NoErr

\* C8: with skipRaw set no started span carries redis.raw_command; without it every
\* started span carries it, and its value is the operation string
C8_RawCommand ==
    \A c \in Calls :
        Started(c) =>
            IF hook.config.skipRaw
            THEN "redis.raw_command" \notin DOMAIN spans[ctx[c]].tags
            ELSE /\ "redis.raw_command" \in DOMAIN spans[ctx[c]].tags
                 /\ spans[ctx[c]].tags["redis.raw_command"] = op[c]

C8_Witness ==
    \E c \in Calls :
        /\ Started(c)
        /\ hook.config.skipRaw
        /\ op[c] # <<>>
        /\ "redis.raw_command" \notin DOMAIN spans[ctx[c]].tags

\* C9: the operation string is the commands, each its tokens joined by single spaces,
\* joined by the separator, which stands between consecutive commands only; for a single
\* command it is the tokens joined by spaces and nothing more
C9_OperationString ==
    \A c \in Calls :
        Started(c) =>
            op[c] = Join([i \in 1..Len(CommandsOf(c)) |-> Join(CommandsOf(c)[i], <<SP>>)],
                         <<":", NL>>)

\* C10: the addrs tag of the hook, and of every span, is the addresses given to WrapClient
\* joined by ", " in their order, each as often as given, and the caller's list is unchanged
C10_AddrsTag ==
    hook.installed =>
        LET want == Join(SubSeq(given.arr, 1, given.len), <<",", SP>>)
        IN  /\ hook.additionalTags = << Tag("addrs", want) >>
            /\ \A i \in 1..Len(spans) : spans[i].tags["addrs"] = want
            /\ SubSeq(callerArr, 1, given.len) = SubSeq(given.arr, 1, given.len)

=============================================================================
